---- MODULE Spec2Model ----
(***************************************************************************)
(* A model of src/src/simple_graph.py: class Graph, a directed graph kept  *)
(* as a dict from node to the list of its successors.                      *)
(*                                                                         *)
(* _nodes is the dict.  It is modelled as a function from the present keys *)
(* to sequences of nodes.  The iteration order of the dict's keys is not   *)
(* tracked: nodes() and edges() are therefore given as sets of the entries *)
(* of the lists the code returns.  The order inside one successor list is  *)
(* tracked exactly.                                                        *)
(*                                                                         *)
(* ret is what the last call gave back to its caller: the exception it     *)
(* raised (exc) or "None", and the list it returned (val).                 *)
(***************************************************************************)
EXTENDS Naturals, Sequences, FiniteSets

VARIABLES _nodes, ret

vars == <<_nodes, ret>>

\* ---- bounds -------------------------------------------------------------
\* Node identifiers and total number of stored successors used by Spec and
\* SpecWalk (all four mutators, arbitrary arguments).
MaxNode == 3
MaxEdges == 3
\* Node identifiers and total number of stored successors used by SpecT
\* (graphs grown by add_edge alone, then traversed).
TravNodes == 4
TravEdges == 4

Node == 1..MaxNode
TNode == 1..TravNodes

\* ---- helpers for Python lists and dicts ---------------------------------
\* x in lst
InSeq(x, s) == \E i \in 1..Len(s) : s[i] = x

Elems(s) == {s[i] : i \in 1..Len(s)}

\* lst.remove(x): drops the first occurrence of x (x is known to be in lst)
ListRemove(s, x) ==
    LET i == CHOOSE j \in 1..Len(s) : s[j] = x /\ \A k \in 1..(j - 1) : s[k] # x
    IN  SubSeq(s, 1, i - 1) \o SubSeq(s, i + 1, Len(s))

\* d[k] = v
Put(d, k, v) == [x \in DOMAIN d \cup {k} |-> IF x = k THEN v ELSE d[x]]

\* d.setdefault(k, v)
setdefault(d, k, v) == IF k \in DOMAIN d THEN d ELSE Put(d, k, v)

\* del d[k]
DelKey(d, k) == [x \in DOMAIN d \ {k} |-> d[x]]

\* The outcome of a method: the dict it leaves, the exception it raises
\* ("None" when it returns normally) and the list it returns.
Returns(d, v) == [d |-> d, exc |-> "None", val |-> v]
Raises(d, e) == [d |-> d, exc |-> e, val |-> <<>>]

\* ---- the methods of Graph -----------------------------------------------
\* Graph.__init__
EmptyGraph == <<>>

\* Graph.nodes: list(self._nodes), as the set of its entries
nodes(d) == DOMAIN d

\* Graph.edges: one tuple (start, end) per entry of every successor list,
\* as the set of the entries of tup_lst
edges(d) == UNION {{<<start, d[start][i]>> : i \in 1..Len(d[start])} : start \in DOMAIN d}

\* Graph.add_node
add_node(d, node) ==
    IF node \in DOMAIN d
    THEN Raises(d, "ValueError")
    ELSE Returns(Put(d, node, <<>>), <<>>)

\* add_edge with the membership test left out: the edge is always appended
add_edge_unchecked(d, n1, n2) ==
    LET d1 == setdefault(d, n1, <<>>)
        d2 == setdefault(d1, n2, <<>>)
    IN  Returns([d2 EXCEPT ![n1] = Append(@, n2)], <<>>)

\* add_edge with the new successor put first in the list
add_edge_prepend(d, n1, n2) ==
    LET d1 == setdefault(d, n1, <<>>)
        d2 == setdefault(d1, n2, <<>>)
    IN  IF ~InSeq(n2, d2[n1])
        THEN Returns([d2 EXCEPT ![n1] = <<n2>> \o @], <<>>)
        ELSE Raises(d2, "ValueError")

\* add_edge that creates n1 but not n2
add_edge_no_endpoint(d, n1, n2) ==
    LET d1 == setdefault(d, n1, <<>>)
    IN  IF ~InSeq(n2, d1[n1])
        THEN Returns([d1 EXCEPT ![n1] = Append(@, n2)], <<>>)
        ELSE Raises(d1, "ValueError")

\* Graph.add_edge
add_edge(d, n1, n2) ==
    LET d1 == setdefault(d, n1, <<>>)
        d2 == setdefault(d1, n2, <<>>)
    IN  IF ~InSeq(n2, d2[n1])
        THEN Returns([d2 EXCEPT ![n1] = Append(@, n2)], <<>>)
        ELSE Raises(d2, "ValueError")

\* del_node that also drops the node from every other successor list
del_node_cascade(d, node) ==
    IF node \in DOMAIN d
    THEN Returns([x \in DOMAIN d \ {node} |-> SelectSeq(d[x], LAMBDA e : e # node)], <<>>)
    ELSE Raises(d, "ValueError")

\* Graph.del_node
del_node(d, node) ==
    IF node \in DOMAIN d
    THEN Returns(DelKey(d, node), <<>>)
    ELSE Raises(d, "ValueError")

\* Graph.del_edge
del_edge(d, n1, n2) ==
    IF n1 \in DOMAIN d /\ InSeq(n2, d[n1])
    THEN Returns([d EXCEPT ![n1] = ListRemove(@, n2)], <<>>)
    ELSE Raises(d, "ValueError")

\* Graph.has_node
has_node(d, node) == node \in DOMAIN d

\* Graph.neighbors
neighbors(d, node) ==
    IF node \in DOMAIN d THEN Returns(d, d[node]) ELSE Raises(d, "ValueError")

\* adjacent that tests only n1 for presence
adjacent_one_check(d, n1, n2) ==
    IF ~has_node(d, n1)
    THEN "KeyError"
    ELSE IF InSeq(n2, d[n1]) THEN "True" ELSE "False"

\* Graph.adjacent: "KeyError" when an endpoint is absent, else the boolean
adjacent(d, n1, n2) ==
    IF ~has_node(d, n1) \/ ~has_node(d, n2)
    THEN "KeyError"
    ELSE IF InSeq(n2, d[n1]) THEN "True" ELSE "False"

\* Graph.depth_first_traversal(start, prev).  prev is one list shared by
\* the whole recursion, so every call hands the list it leaves to the next.
\* dft_loop is the for loop over self._nodes[start], from its i-th entry on.
\* err says that a KeyError was raised (it propagates through every caller).
RECURSIVE dft(_, _, _), dft_loop(_, _, _, _, _)

\* the for loop with every recursive call given the caller's own prev, not
\* the list the previous call left
dft_loop_unshared(d, succs, i, path_list, prev) ==
    IF i > Len(succs)
    THEN [err |-> FALSE, path |-> path_list, prev |-> prev]
    ELSE LET r == dft(d, succs[i], prev)
         IN  IF r.err
             THEN [err |-> TRUE, path |-> <<>>, prev |-> prev]
             ELSE dft_loop(d, succs, i + 1, path_list \o r.path, prev)

dft(d, start, prev) ==
    IF start \notin DOMAIN d
    THEN [err |-> TRUE, path |-> <<>>, prev |-> prev]
    ELSE IF InSeq(start, prev)
         THEN [err |-> FALSE, path |-> <<>>, prev |-> prev]
         ELSE dft_loop(d, d[start], 1, <<start>>, Append(prev, start))

dft_loop(d, succs, i, path_list, prev) ==
    IF i > Len(succs)
    THEN [err |-> FALSE, path |-> path_list, prev |-> prev]
    ELSE LET r == dft(d, succs[i], prev)
         IN  IF r.err
             THEN [err |-> TRUE, path |-> <<>>, prev |-> r.prev]
             ELSE dft_loop(d, succs, i + 1, path_list \o r.path, r.prev)

\* Graph.depth_first_traversal(start), as called from outside: prev is None
depth_first_traversal(d, start) ==
    LET r == dft(d, start, <<>>)
    IN  IF r.err THEN Raises(d, "KeyError") ELSE Returns(d, r.path)

\* The two nested for loops of breadth_first_traversal over the items of
\* parent from the i-th on: the successors of each item that are not in
\* path_list, in order.  path_list is not changed while the loops run.
\* self._nodes[item] raises KeyError for an item that is no key.
RECURSIVE bft_children(_, _, _, _)
bft_children(d, parent, i, path_list) ==
    IF i > Len(parent)
    THEN [err |-> FALSE, children |-> <<>>]
    ELSE IF parent[i] \notin DOMAIN d
         THEN [err |-> TRUE, children |-> <<>>]
         ELSE LET rest == bft_children(d, parent, i + 1, path_list)
                  mine == SelectSeq(d[parent[i]], LAMBDA edge : ~InSeq(edge, path_list))
              IN  IF rest.err
                  THEN [err |-> TRUE, children |-> <<>>]
                  ELSE [err |-> FALSE, children |-> mine \o rest.children]

\* Graph.breadth_first_traversal(parent, path_list) with parent a list:
\* the recursive call on one layer.
RECURSIVE bft(_, _, _)
bft(d, parent, path_list) ==
    LET c == bft_children(d, parent, 1, path_list)
    IN  IF c.err
        THEN [err |-> TRUE, path |-> <<>>]
        ELSE IF Len(c.children) = 0
             THEN [err |-> FALSE, path |-> path_list \o c.children]
             ELSE bft(d, c.children, path_list \o c.children)

\* breadth_first_traversal without path_list.append(parent)
breadth_first_traversal_no_append(d, parent) ==
    LET r == bft(d, <<parent>>, <<>>)
    IN  IF r.err THEN Raises(d, "KeyError") ELSE Returns(d, r.path)

\* Graph.breadth_first_traversal(parent), as called from outside: parent is
\* a node (a list is not hashable, so it is no node) and path_list is None.
breadth_first_traversal(d, parent) ==
    LET r == bft(d, <<parent>>, <<parent>>)
    IN  IF r.err THEN Raises(d, "KeyError") ELSE Returns(d, r.path)

\* ---- the state machine --------------------------------------------------
\* The number of stored successors, over all lists
RECURSIVE EdgeCountOver(_, _)
EdgeCountOver(d, ks) ==
    IF ks = {} THEN 0
    ELSE LET k == CHOOSE x \in ks : TRUE
         IN  Len(d[k]) + EdgeCountOver(d, ks \ {k})

EdgeCount(d) == EdgeCountOver(d, DOMAIN d)

\* A call of a method: the dict becomes what the method leaves and ret
\* what it gives back.
Call(r) ==
    /\ _nodes' = r.d
    /\ ret' = [exc |-> r.exc, val |-> r.val]

Init ==
    /\ _nodes = EmptyGraph
    /\ ret = [exc |-> "None", val |-> <<>>]

AddNode(n) == Call(add_node(_nodes, n))

\* (the graph the call leaves holds at most MaxEdges successors)
AddEdge(n1, n2) ==
    /\ Call(add_edge(_nodes, n1, n2))
    /\ EdgeCount(_nodes') <= MaxEdges

DelNode(n) == Call(del_node(_nodes, n))

DelEdge(n1, n2) == Call(del_edge(_nodes, n1, n2))

Dfs(start) == Call(depth_first_traversal(_nodes, start))

Bfs(start) == Call(breadth_first_traversal(_nodes, start))

\* Spec: the four mutators with every argument.
Next ==
    \/ \E n \in Node : AddNode(n)
    \/ \E n1, n2 \in Node : AddEdge(n1, n2)
    \/ \E n \in Node : DelNode(n)
    \/ \E n1, n2 \in Node : DelEdge(n1, n2)

Spec == Init /\ [][Next]_vars

\* SpecWalk: the mutators and the two traversals.
NextWalk ==
    \/ \E n \in Node : AddNode(n)
    \/ \E n1, n2 \in Node : AddEdge(n1, n2)
    \/ \E n \in Node : DelNode(n)
    \/ \E n1, n2 \in Node : DelEdge(n1, n2)
    \/ \E start \in Node : Dfs(start)
    \/ \E start \in Node : Bfs(start)

SpecWalk == Init /\ [][NextWalk]_vars

\* SpecT: graphs over TravNodes nodes in which every successor is a key,
\* grown by add_edge alone and traversed from every node.  The code only
\* compares node identifiers, so a node that add_edge creates takes the
\* smallest identifier not in use, and after the first edge every new edge
\* touches a node that is already there.
Fresh(d) == CHOOSE x \in TNode \ DOMAIN d : \A y \in TNode \ DOMAIN d : x <= y

Grow(n1, n2) ==
    /\ EdgeCount(_nodes) < TravEdges
    /\ IF DOMAIN _nodes = {}
       THEN n1 = 1 /\ n2 \in {1, 2}
       ELSE \/ {n1, n2} \subseteq DOMAIN _nodes
            \/ DOMAIN _nodes # TNode /\ {n1, n2} \ DOMAIN _nodes = {Fresh(_nodes)}
    /\ Call(add_edge(_nodes, n1, n2))

NextT ==
    \/ \E n1, n2 \in TNode : Grow(n1, n2)
    \/ \E start \in TNode : Dfs(start)
    \/ \E start \in TNode : Bfs(start)

SpecT == Init /\ [][NextT]_vars

\* ---- definitions used to state the properties ---------------------------
Keys == DOMAIN _nodes

\* n is a successor of m in d
Lists(d, m, n) == m \in DOMAIN d /\ InSeq(n, d[m])

\* every successor is a key
Closed(d) == \A m \in DOMAIN d : Elems(d[m]) \subseteq DOMAIN d

\* n is no key of d but a successor of some key
Dangling(d, n) == n \notin DOMAIN d /\ \E m \in DOMAIN d : InSeq(n, d[m])

NoDup(s) == \A i, j \in 1..Len(s) : s[i] = s[j] => i = j

\* n's successor list before a call, the empty list when n is absent
ListOf(d, n) == IF n \in DOMAIN d THEN d[n] ELSE <<>>

\* The nodes reachable from the nodes of S along successor lists
RECURSIVE ReachableFrom(_, _)
ReachableFrom(d, S) ==
    LET T == S \cup UNION {Elems(d[x]) : x \in S \cap DOMAIN d}
    IN  IF T = S THEN S ELSE ReachableFrom(d, T)

Reachable(d, start) == ReachableFrom(d, {start})

\* The length of a shortest path to n from the nodes of frontier, plus k;
\* seen are the nodes nearer than frontier.  n is reachable from frontier.
RECURSIVE DistFrom(_, _, _, _, _)
DistFrom(d, frontier, seen, n, k) ==
    IF n \in frontier \/ frontier = {}
    THEN k
    ELSE DistFrom(d, (UNION {Elems(d[x]) : x \in frontier \cap DOMAIN d}) \ (seen \cup frontier),
                  seen \cup frontier, n, k + 1)

Dist(d, start, n) == DistFrom(d, {start}, {}, n, 0)

\* The pre-order of a depth-first walk, with an explicit stack: take the top
\* node; if it was emitted drop it, else emit it and push its successors, in
\* stored order, on top.
RECURSIVE StackWalk(_, _, _)
StackWalk(d, stack, out) ==
    IF stack = <<>>
    THEN out
    ELSE IF InSeq(Head(stack), out)
         THEN StackWalk(d, Tail(stack), out)
         ELSE StackWalk(d, d[Head(stack)] \o Tail(stack), Append(out, Head(stack)))

Preorder(d, start) == StackWalk(d, <<start>>, <<>>)

\* ---- C1 -----------------------------------------------------------------
\* C1: a mutator that fails leaves the graph unchanged: whenever add_node,
\* add_edge, del_node or del_edge raises, the node set and every successor
\* list are what they were before the call.
C1_FailedMutationLeavesGraph ==
    [][\A n1, n2 \in Node :
          ret'.exc # "None"
          /\ (AddNode(n1) \/ AddEdge(n1, n2) \/ DelNode(n1) \/ DelEdge(n1, n2))
          => _nodes' = _nodes]_vars

\* ---- C6 -----------------------------------------------------------------
\* C6: no successor list holds the same node twice, in any state reached by
\* add_node, add_edge, del_node and del_edge.
C6_NoParallelEdges == \A m \in Keys : NoDup(_nodes[m])

\* A node lists every node as a successor (any further add_edge from it is a
\* duplicate) and the last call, such a duplicate, raised.
C6_Witness ==
    /\ \E m \in Keys : Len(_nodes[m]) = MaxNode
    /\ ret.exc = "ValueError"

\* ---- C3 -----------------------------------------------------------------
\* C3, as claimed: in every reachable state every node in a successor list
\* is a key of the mapping.
C3_EndpointInvariant == Closed(_nodes)

\* C3, amended: a successor that is no key is there only because del_node
\* removed that node: a step that makes n a successor without an entry is a
\* del_node(n) of a present n (so add_node, add_edge and del_edge never
\* make one), and add_edge leaves both its endpoints as keys.
C3_DanglingOnlyByDelNode ==
    [][/\ \A n \in Node :
             Dangling(_nodes', n) /\ ~Dangling(_nodes, n)
             => n \in Keys /\ _nodes' = del_node(_nodes, n).d
       /\ \A n1, n2 \in Node : AddEdge(n1, n2) => {n1, n2} \subseteq DOMAIN _nodes']_vars

\* A node was deleted while another still lists it, next to an edge whose
\* endpoint add_edge created and which is still a key.
C3_Witness ==
    \E m \in Keys : \E n, k \in Node :
        /\ Lists(_nodes, m, n) /\ n \notin Keys
        /\ Lists(_nodes, m, k) /\ k \in Keys /\ k # m
        /\ ret.exc = "None"

\* ---- C8 -----------------------------------------------------------------
\* C8: del_node(n) on a present n removes the entry of n and nothing else:
\* every other node keeps its successor list, n included where it was, in
\* the same order; on an absent n it raises and changes nothing.
C8_DelNodeFrame ==
    [][\A n \in Node :
          DelNode(n)
          => IF n \in Keys
             THEN /\ ret'.exc = "None"
                  /\ DOMAIN _nodes' = Keys \ {n}
                  /\ \A m \in Keys \ {n} : _nodes'[m] = _nodes[m]
             ELSE /\ ret'.exc = "ValueError"
                  /\ _nodes' = _nodes]_vars

\* After a del_node: a node that is gone is still listed, between two other
\* successors of the node that lists it.
C8_Witness ==
    \E m \in Keys : \E n \in Node \ Keys :
        /\ Len(_nodes[m]) = 3
        /\ _nodes[m][2] = n
        /\ ret.exc = "None"

\* ---- C9 -----------------------------------------------------------------
\* C9: add_edge(n1, n2) with n2 not yet a successor of n1 succeeds and
\* leaves n1 and n2 present, an endpoint that was absent with no successors
\* but the new one, n2 last in n1's list behind the earlier successors in
\* their order, every other entry unchanged, and no edge from n2 to n1
\* that was not there (unless n1 = n2).
C9_AddEdgeEffect ==
    [][\A n1, n2 \in Node :
          ~Lists(_nodes, n1, n2) /\ AddEdge(n1, n2)
          => /\ ret'.exc = "None"
             /\ DOMAIN _nodes' = Keys \cup {n1, n2}
             /\ _nodes'[n1] = Append(ListOf(_nodes, n1), n2)
             /\ n2 # n1 => _nodes'[n2] = ListOf(_nodes, n2)
             /\ \A m \in Keys \ {n1} : _nodes'[m] = _nodes[m]
             /\ n2 # n1 => (Lists(_nodes', n2, n1) <=> Lists(_nodes, n2, n1))]_vars

\* After add_edge calls: a node with two successors in the order they were
\* added, the later one created by the call with no successors of its own.
C9_Witness ==
    \E n1 \in Keys : \E n2 \in Keys \ {n1} :
        /\ Len(_nodes[n1]) = 2
        /\ _nodes[n1][2] = n2
        /\ _nodes[n1][1] > n2
        /\ _nodes[n2] = <<>>
        /\ ~Lists(_nodes, n2, n1)
        /\ ret.exc = "None"

\* ---- C10 ----------------------------------------------------------------
\* C10: deleting a node that m lists and adding it again revives the edge.
\* After del_node(n), with m # n listing n, adjacent(m, n) raises KeyError
\* while edges() still holds (m, n); from such a state add_node(n) succeeds,
\* n has no successors and adjacent(m, n) is true, with no add_edge called.
C10_ReAddRevivesEdge ==
    [][\A m, n \in Node :
          m # n /\ Lists(_nodes, m, n)
          => /\ DelNode(n) /\ n \in Keys
                => /\ adjacent(_nodes', m, n) = "KeyError"
                   /\ <<m, n>> \in edges(_nodes')
             /\ AddNode(n) /\ n \notin Keys
                => /\ adjacent(_nodes, m, n) = "KeyError"
                   /\ <<m, n>> \in edges(_nodes)
                   /\ ret'.exc = "None"
                   /\ _nodes'[n] = <<>>
                   /\ adjacent(_nodes', m, n) = "True"]_vars

\* Between the two calls: n is gone and m still lists it, adjacent(m, n)
\* raises, edges() holds (m, n), and add_node(n) would make adjacent true.
C10_Witness ==
    \E m \in Keys : \E n \in Node \ Keys :
        /\ m # n
        /\ Lists(_nodes, m, n)
        /\ adjacent(_nodes, m, n) = "KeyError"
        /\ <<m, n>> \in edges(_nodes)
        /\ add_node(_nodes, n).exc = "None"
        /\ adjacent(add_node(_nodes, n).d, m, n) = "True"
        /\ ret.exc = "None"

\* ---- C4 -----------------------------------------------------------------
\* C4: a traversal from a node m that lists a deleted node completes and
\* returns a sequence: neither depth_first_traversal(m) nor
\* breadth_first_traversal(m) raises.
C4_TraversalsTolerateDangling ==
    [][\A m \in Node :
          /\ m \in Keys
          /\ \E n \in Node \ Keys : InSeq(n, _nodes[m])
          /\ (Dfs(m) \/ Bfs(m))
          => ret'.exc = "None"]_vars

\* ---- C2 -----------------------------------------------------------------
\* C2: breadth_first_traversal(start), on a graph whose successors are all
\* present and from a present start, returns no node twice.
C2_BfsEmitsOnce ==
    [][\A start \in TNode :
          Bfs(start) /\ Closed(_nodes) /\ start \in Keys
          => NoDup(ret'.val)]_vars

\* ---- C5 -----------------------------------------------------------------
\* C5: depth_first_traversal(start), on a graph whose successors are all
\* present (cycles and self-loops included) and from a present start,
\* returns the pre-order of the depth-first walk that explores successors in
\* stored order: start first, every node reachable from start exactly once,
\* no other node.
C5_DfsPreorder ==
    [][\A start \in TNode :
          Dfs(start) /\ Closed(_nodes) /\ start \in Keys
          => /\ ret'.exc = "None"
             /\ ret'.val = Preorder(_nodes, start)
             /\ ret'.val[1] = start
             /\ NoDup(ret'.val)
             /\ Elems(ret'.val) = Reachable(_nodes, start)]_vars

\* A depth-first result on a graph with a branch, a cycle back to the start
\* and a node (1) met again by a different path.
C5_Witness ==
    /\ Keys = 1..4
    /\ _nodes[1] = <<2, 3>>
    /\ _nodes[2] = <<4>>
    /\ _nodes[4] = <<1>>
    /\ ret = [exc |-> "None", val |-> <<1, 2, 4, 3>>]

\* ---- C7 -----------------------------------------------------------------
\* C7: breadth_first_traversal(start), on a graph whose successors are all
\* present and from a present start, begins with start, holds exactly the
\* nodes reachable from start, and never puts a node before one that is
\* nearer to start.
C7_BfsLevelOrder ==
    [][\A start \in TNode :
          Bfs(start) /\ Closed(_nodes) /\ start \in Keys
          => /\ ret'.exc = "None"
             /\ ret'.val[1] = start
             /\ Elems(ret'.val) = Reachable(_nodes, start)
             /\ \A i, j \in 1..Len(ret'.val) :
                   i < j => Dist(_nodes, start, ret'.val[i]) <= Dist(_nodes, start, ret'.val[j])]_vars

\* A breadth-first result on the branching graph 1->2, 1->3, 2->4, where
\* node 4, two steps away, comes after node 3, one step away.
C7_Witness ==
    /\ Keys = 1..4
    /\ _nodes[1] = <<2, 3>>
    /\ _nodes[2] = <<4>>
    /\ _nodes[3] = <<>>
    /\ _nodes[4] = <<>>
    /\ ret = [exc |-> "None", val |-> <<1, 2, 3, 4>>]

====
